---- MODULE Spec2Model ----
(***************************************************************************)
(* Model of newClient.py: the batch client that lists a directory, posts   *)
(* every .wav/.mp3 entry to the analysis server and saves the decoded      *)
(* responses as <root>.BirdNET.results.json files.                         *)
(*                                                                         *)
(* File names and paths are sequences of one-character strings, so that    *)
(* str.endswith, os.path.splitext, os.path.join and os.path.dirname are     *)
(* computed the way the library computes them.                             *)
(***************************************************************************)
EXTENDS Naturals, Sequences, FiniteSets, TLC

(* Largest number of entries the input directory holds before the run. *)
MaxFiles == 2

----------------------------------------------------------------------------
(* Strings of the program *)

DotWav == <<".", "w", "a", "v">>

DotMp3 == <<".", "m", "p", "3">>

ResultSuffix ==
  <<".", "B", "i", "r", "d", "N", "E", "T", ".", "r", "e", "s", "u", "l", "t", "s",
    ".", "j", "s", "o", "n">>

(* --i : the input directory (the default "example/" also ends in a slash) *)
input_directory == <<"i", "/">>

(* --o : empty (the default) or a directory of its own *)
OutputArgs == {<<>>, <<"o">>}

(* Names the entries of the input directory are drawn from:
   a.wav  a.mp3  a.b.mp3  .wav  n.txt  wav *)
Pool ==
  { <<"a", ".", "w", "a", "v">>,
    <<"a", ".", "m", "p", "3">>,
    <<"a", ".", "b", ".", "m", "p", "3">>,
    <<".", "w", "a", "v">>,
    <<"n", ".", "t", "x", "t">>,
    <<"w", "a", "v">> }

----------------------------------------------------------------------------
(* Library functions, computed as the library computes them *)

(* str.endswith *)
EndsWith(s, suf) ==
  /\ Len(s) >= Len(suf)
  /\ SubSeq(s, Len(s) - Len(suf) + 1, Len(s)) = suf

(* str.rfind: index of the last occurrence of c, 0 when there is none *)
RFind(s, c) ==
  LET I == {i \in 1..Len(s) : s[i] = c}
  IN  IF I = {} THEN 0 ELSE CHOOSE i \in I : \A j \in I : j <= i

(* a variant that cuts the name at its first dot, as name.split(".")[0] does *)
SplitextRoot_FirstDot(p) ==
  LET I == {i \in 1..Len(p) : p[i] = "."}
  IN  IF I = {} THEN p
      ELSE SubSeq(p, 1, (CHOOSE i \in I : \A j \in I : i <= j) - 1)

(* os.path.splitext(p)[0] for a name without separators: the part before the
   last dot, unless only dots come before that dot (then the whole name) *)
SplitextRoot(p) ==
  LET dotIndex == RFind(p, ".")
  IN  IF dotIndex = 0 THEN p
      ELSE IF \E k \in 1..(dotIndex - 1) : p[k] # "."
           THEN SubSeq(p, 1, dotIndex - 1)
           ELSE p

(* os.path.join(a, b) *)
Join(a, b) ==
  IF Len(b) > 0 /\ b[1] = "/" THEN b
  ELSE IF a = <<>> \/ a[Len(a)] = "/" THEN a \o b
  ELSE a \o <<"/">> \o b

(* str.rstrip("/") *)
RECURSIVE RStripSlash(_)
RStripSlash(s) ==
  IF s # <<>> /\ s[Len(s)] = "/" THEN RStripSlash(SubSeq(s, 1, Len(s) - 1)) ELSE s

(* os.path.dirname(p) *)
Dirname(p) ==
  LET i    == RFind(p, "/")
      head == SubSeq(p, 1, i)
  IN  IF head # <<>> /\ (\E k \in 1..Len(head) : head[k] # "/")
      THEN RStripSlash(head)
      ELSE head

(* os.path.basename(p) *)
Basename(p) == SubSeq(p, RFind(p, "/") + 1, Len(p))

(* The directory a path string names: trailing slashes do not matter *)
DirOf(d) == IF \E k \in 1..Len(d) : d[k] # "/" THEN RStripSlash(d) ELSE d

(* json.loads: the texts T1, T2 are compact JSON, P0, P1, P2 are indented
   JSON, anything else is no JSON and raises *)
ValidJson(text) == text \in {"T1", "T2", "P0", "P1", "P2"}

Loads(text) ==
  CASE text \in {"T1", "P1"} -> "J1"
    [] text \in {"T2", "P2"} -> "J2"
    [] text = "P0" -> "J0"

(* json.dump(data, f, indent=4): the indented text of a value *)
Dump(value) ==
  CASE value = "J1" -> "P1"
    [] value = "J2" -> "P2"
    [] value = "J0" -> "P0"

----------------------------------------------------------------------------
(* The run loop's expressions *)

(* a variant that forgets the .mp3 extension *)
Selected_WavOnly(name) == EndsWith(name, DotWav)

(* audio_file.endswith(".wav") or audio_file.endswith(".mp3") *)
Selected(name) == EndsWith(name, DotWav) \/ EndsWith(name, DotMp3)

(* output_directory = args.o if args.o else input_directory *)
OutputDirectory(o) == IF o # <<>> THEN o ELSE input_directory

(* f"{os.path.splitext(audio_file)[0]}.BirdNET.results.json" *)
ResultName(name) == SplitextRoot(name) \o ResultSuffix

(* result_file_path *)
ResultFilePath(o, name) == Join(OutputDirectory(o), ResultName(name))

(* audio_file_path *)
AudioFilePath(name) == Join(input_directory, name)

----------------------------------------------------------------------------
(* The environment: what happens to one audio file.
   kind: "ok", or the step that raises for this file;
   status, text: the server's response when the request goes through. *)
Fates ==
  [kind : {"ok"}, status : {200}, text : {"T1", "T2", "garbage"}]
    \cup [kind : {"ok"}, status : {500}, text : {"T1", "garbage"}]
    \cup [kind : {"unreadable", "neterr", "mkdirfail", "openfail", "dumpfail"},
          status : {200}, text : {"T1"}]

VARIABLES
  entries,     \* names in the input directory before the first run
  args_o,      \* args.o
  env,         \* fate of every audio entry met so far, the same in both runs
  dirs,        \* directories that exist
  files,       \* result files on disk: path -> text
  second,      \* TRUE in the second run of the client
  pc,          \* position of the script
  todo,        \* entries of the os.listdir snapshot not iterated yet
  audio_file,  \* loop variable
  handles,     \* open audio file handles
  inflight,    \* requests sent and not answered
  response,    \* response of requests.post
  data,        \* value returned by sendRequest
  err,         \* exception that ended the run, "none" while there is none
  requests,    \* audio entries posted to the server in this run, in order
  writes,      \* audio entries whose result was saved in this run, in order
  visited,     \* audio entries the loop selected in this run, in order
  order1,      \* visited, as the first run left it
  snapshot     \* files, as the first run left them

vars ==
  <<entries, args_o, env, dirs, files, second, pc, todo, audio_file, handles,
    inflight, response, data, err, requests, writes, visited, order1, snapshot>>

NoResponse == [status |-> 0, text |-> ""]

AudioEntries == {n \in entries : Selected(n)}

(* os.listdir(input_directory): the names in the input directory, result
   files saved there included *)
ListDir ==
  entries \cup {Basename(p) : p \in {q \in DOMAIN files : Dirname(q) = DirOf(input_directory)}}

StaleFiles(o, E) ==
  [p \in {ResultFilePath(o, n) : n \in {m \in E : Selected(m)}} |-> "P0"]

Init ==
  /\ entries \in {E \in SUBSET Pool : Cardinality(E) <= MaxFiles}
  /\ args_o \in OutputArgs
  /\ env = <<>>
  /\ \E stale \in BOOLEAN, made \in BOOLEAN :
       /\ stale => (made /\ AudioEntries # {})
       /\ dirs = {DirOf(input_directory)}
                   \cup (IF made THEN {DirOf(OutputDirectory(args_o))} ELSE {})
       /\ files = IF stale THEN StaleFiles(args_o, entries) ELSE <<>>
  /\ second = FALSE
  /\ pc = "listdir"
  /\ todo = {}
  /\ audio_file = <<>>
  /\ handles = {}
  /\ inflight = {}
  /\ response = NoResponse
  /\ data = "none"
  /\ err = "none"
  /\ requests = <<>>
  /\ writes = <<>>
  /\ visited = <<>>
  /\ order1 = <<>>
  /\ snapshot = <<>>

----------------------------------------------------------------------------
(* The script *)

(* a variant in which the loop catches the exception and goes on *)
Raise_Caught(e) ==
  /\ pc' = "loop"
  /\ err' = e
  /\ handles' = {}
  /\ inflight' = {}

(* An exception nothing catches: the with block (if entered) closes the audio
   file, the request (if any) is over, and the process ends with a traceback *)
Raise(e) ==
  /\ pc' = "failed"
  /\ err' = e
  /\ handles' = {}
  /\ inflight' = {}

(* for audio_file in os.listdir(input_directory): the listing is taken once,
   in an order the file system decides *)
Listdir ==
  /\ pc = "listdir"
  /\ todo' = ListDir
  /\ pc' = "loop"
  /\ UNCHANGED <<entries, args_o, env, dirs, files, second, audio_file, handles,
                 inflight, response, data, err, requests, writes, visited, order1,
                 snapshot>>

(* an entry that is no audio file: the loop body does nothing *)
Skip ==
  /\ pc = "loop"
  /\ \E name \in todo :
       /\ ~Selected(name)
       /\ todo' = todo \ {name}
       /\ audio_file' = name
  /\ UNCHANGED <<entries, args_o, env, dirs, files, second, pc, handles, inflight,
                 response, data, err, requests, writes, visited, order1, snapshot>>

(* an audio entry: sendRequest is called with its path. What the file, the
   server and the disk do for this entry is settled when it is first met. *)
Select ==
  /\ pc = "loop"
  /\ \E name \in todo :
       /\ Selected(name)
       /\ todo' = todo \ {name}
       /\ audio_file' = name
       /\ visited' = Append(visited, name)
       /\ \/ name \in DOMAIN env /\ env' = env
          \/ name \notin DOMAIN env /\ \E f \in Fates : env' = (name :> f) @@ env
  /\ response' = NoResponse
  /\ pc' = "open"
  /\ UNCHANGED <<entries, args_o, dirs, files, second, handles, inflight,
                 data, err, requests, writes, order1, snapshot>>

(* the listing is exhausted: the script ends normally *)
Finish ==
  /\ pc = "loop"
  /\ todo = {}
  /\ pc' = "done"
  /\ UNCHANGED <<entries, args_o, env, dirs, files, second, todo, audio_file, handles,
                 inflight, response, data, err, requests, writes, visited, order1,
                 snapshot>>

(* with open(fpath, "rb") as audio_file *)
OpenAudio ==
  /\ pc = "open"
  /\ env[audio_file].kind # "unreadable"
  /\ handles' = handles \cup {AudioFilePath(audio_file)}
  /\ pc' = "post"
  /\ UNCHANGED <<entries, args_o, env, dirs, files, second, todo, audio_file, inflight,
                 response, data, err, requests, writes, visited, order1, snapshot>>

OpenAudioFails ==
  /\ pc = "open"
  /\ env[audio_file].kind = "unreadable"
  /\ Raise("OSError: audio file")
  /\ UNCHANGED <<entries, args_o, env, dirs, files, second, todo, audio_file, response,
                 data, requests, writes, visited, order1, snapshot>>

(* requests.post(url, files=multipart_form_data): the request leaves *)
PostSend ==
  /\ pc = "post"
  /\ inflight' = inflight \cup {audio_file}
  /\ requests' = Append(requests, audio_file)
  /\ pc' = "wait"
  /\ UNCHANGED <<entries, args_o, env, dirs, files, second, todo, audio_file, handles,
                 response, data, err, writes, visited, order1, snapshot>>

(* requests.post returns the response, whatever its status *)
PostReturn ==
  /\ pc = "wait"
  /\ env[audio_file].kind # "neterr"
  /\ response' = [status |-> env[audio_file].status, text |-> env[audio_file].text]
  /\ inflight' = inflight \ {audio_file}
  /\ pc' = "loads"
  /\ UNCHANGED <<entries, args_o, env, dirs, files, second, todo, audio_file, handles,
                 data, err, requests, writes, visited, order1, snapshot>>

(* requests.post raises (connection refused, DNS failure, ...) *)
PostFails ==
  /\ pc = "wait"
  /\ env[audio_file].kind = "neterr"
  /\ Raise("ConnectionError")
  /\ UNCHANGED <<entries, args_o, env, dirs, files, second, todo, audio_file, response,
                 data, requests, writes, visited, order1, snapshot>>

(* a variant that rejects every status but 200, as raise_for_status would *)
Decodable_StatusChecked(resp) == resp.status = 200 /\ ValidJson(resp.text)

(* json.loads(response.text) decides alone whether the response is used *)
Decodable(resp) == ValidJson(resp.text)

(* a variant that keeps the audio file open after sendRequest has returned *)
JsonLoads_Leak ==
  /\ pc = "loads"
  /\ ValidJson(response.text)
  /\ data' = Loads(response.text)
  /\ pc' = "makedirs"
  /\ UNCHANGED <<entries, args_o, env, dirs, files, second, todo, audio_file, handles,
                 inflight, response, err, requests, writes, visited, order1, snapshot>>

(* data = json.loads(response.text); the with block ends; return data *)
JsonLoads ==
  /\ pc = "loads"
  /\ Decodable(response)
  /\ data' = Loads(response.text)
  /\ handles' = handles \ {AudioFilePath(audio_file)}
  /\ pc' = "makedirs"
  /\ UNCHANGED <<entries, args_o, env, dirs, files, second, todo, audio_file, inflight,
                 response, err, requests, writes, visited, order1, snapshot>>

(* a variant that saves an empty result when the body is no JSON *)
JsonLoadsFails_Fallback ==
  /\ pc = "loads"
  /\ ~ValidJson(response.text)
  /\ files' = (ResultFilePath(args_o, audio_file) :> "P0") @@ files
  /\ pc' = "failed"
  /\ err' = "JSONDecodeError"
  /\ handles' = {}
  /\ inflight' = {}
  /\ UNCHANGED <<entries, args_o, env, dirs, second, todo, audio_file, response,
                 data, requests, writes, visited, order1, snapshot>>

JsonLoadsFails ==
  /\ pc = "loads"
  /\ ~Decodable(response)
  /\ Raise("JSONDecodeError")
  /\ UNCHANGED <<entries, args_o, env, dirs, files, second, todo, audio_file, response,
                 data, requests, writes, visited, order1, snapshot>>

(* a variant of saveResult that does not make the directory *)
MakeDirs_Skipped ==
  /\ pc = "makedirs"
  /\ pc' = "write"
  /\ UNCHANGED <<entries, args_o, env, dirs, files, second, todo, audio_file, handles,
                 inflight, response, data, err, requests, writes, visited, order1,
                 snapshot>>

(* saveResult: os.makedirs(os.path.dirname(fpath), exist_ok=True) *)
MakeDirs ==
  /\ pc = "makedirs"
  /\ LET dir_path == Dirname(ResultFilePath(args_o, audio_file))
     IN  /\ dir_path # <<>>
         /\ dir_path \in dirs \/ env[audio_file].kind # "mkdirfail"
         /\ dirs' = dirs \cup {dir_path}
  /\ pc' = "write"
  /\ UNCHANGED <<entries, args_o, env, files, second, todo, audio_file, handles,
                 inflight, response, data, err, requests, writes, visited, order1,
                 snapshot>>

(* os.makedirs raises: the path is empty or cannot be created *)
MakeDirsFails ==
  /\ pc = "makedirs"
  /\ LET dir_path == Dirname(ResultFilePath(args_o, audio_file))
     IN  \/ dir_path = <<>>
         \/ dir_path \notin dirs /\ env[audio_file].kind = "mkdirfail"
  /\ Raise("OSError: makedirs")
  /\ UNCHANGED <<entries, args_o, env, dirs, files, second, todo, audio_file, response,
                 data, requests, writes, visited, order1, snapshot>>

(* a variant that opens the result file with "a": an existing file grows by
   a second document instead of being replaced *)
WriteResult_Append ==
  /\ pc = "write"
  /\ Dirname(ResultFilePath(args_o, audio_file)) \in dirs
  /\ env[audio_file].kind \notin {"openfail", "dumpfail"}
  /\ files' = (ResultFilePath(args_o, audio_file) :>
                 (IF ResultFilePath(args_o, audio_file) \in DOMAIN files
                  THEN "two documents" ELSE Dump(data))) @@ files
  /\ writes' = Append(writes, audio_file)
  /\ pc' = "loop"
  /\ UNCHANGED <<entries, args_o, env, dirs, second, todo, audio_file, handles,
                 inflight, response, data, err, requests, visited, order1, snapshot>>

(* saveResult: with open(fpath, "w") as f: json.dump(data, f, indent=4) *)
WriteResult ==
  /\ pc = "write"
  /\ Dirname(ResultFilePath(args_o, audio_file)) \in dirs
  /\ env[audio_file].kind \notin {"openfail", "dumpfail"}
  /\ files' = (ResultFilePath(args_o, audio_file) :> Dump(data)) @@ files
  /\ writes' = Append(writes, audio_file)
  /\ pc' = "loop"
  /\ UNCHANGED <<entries, args_o, env, dirs, second, todo, audio_file, handles,
                 inflight, response, data, err, requests, visited, order1, snapshot>>

(* open(fpath, "w") raises: nothing is touched *)
WriteOpenFails ==
  /\ pc = "write"
  /\ \/ Dirname(ResultFilePath(args_o, audio_file)) \notin dirs
     \/ env[audio_file].kind = "openfail"
  /\ Raise("OSError: open result")
  /\ UNCHANGED <<entries, args_o, env, dirs, files, second, todo, audio_file, response,
                 data, requests, writes, visited, order1, snapshot>>

(* open(fpath, "w") has truncated the file and the write raises (disk full,
   I/O error): a truncated file is left behind *)
WriteDumpFails ==
  /\ pc = "write"
  /\ Dirname(ResultFilePath(args_o, audio_file)) \in dirs
  /\ env[audio_file].kind = "dumpfail"
  /\ files' = (ResultFilePath(args_o, audio_file) :> "truncated") @@ files
  /\ Raise("OSError: write result")
  /\ UNCHANGED <<entries, args_o, env, dirs, second, todo, audio_file, response, data,
                 requests, writes, visited, order1, snapshot>>

(* the client is started again on the same directory, same server, same disk *)
RunAgain ==
  /\ pc \in {"done", "failed"}
  /\ ~second
  /\ second' = TRUE
  /\ order1' = visited
  /\ snapshot' = files
  /\ pc' = "listdir"
  /\ todo' = {}
  /\ audio_file' = <<>>
  /\ response' = NoResponse
  /\ data' = "none"
  /\ err' = "none"
  /\ requests' = <<>>
  /\ writes' = <<>>
  /\ visited' = <<>>
  /\ UNCHANGED <<entries, args_o, env, dirs, files, handles, inflight>>

Next ==
  \/ Listdir
  \/ Skip
  \/ Select
  \/ Finish
  \/ OpenAudio
  \/ OpenAudioFails
  \/ PostSend
  \/ PostReturn
  \/ PostFails
  \/ JsonLoads
  \/ JsonLoadsFails
  \/ MakeDirs
  \/ MakeDirsFails
  \/ WriteResult
  \/ WriteOpenFails
  \/ WriteDumpFails

(* one run of the client *)
Spec == Init /\ [][Next]_vars

(* two runs of the client, one after the other *)
NextTwice == Next \/ RunAgain

SpecTwice == Init /\ [][NextTwice]_vars

----------------------------------------------------------------------------
(* Vocabulary of the properties *)

Range(seq) == {seq[i] : i \in 1..Len(seq)}

NoDuplicates(seq) == \A i, j \in 1..Len(seq) : i # j => seq[i] # seq[j]

(* the name ends in .wav or .mp3, read off its last four characters *)
EndsInWavOrMp3(n) ==
  /\ Len(n) >= 4
  /\ n[Len(n) - 3] = "."
  /\ \/ n[Len(n) - 2] = "w" /\ n[Len(n) - 1] = "a" /\ n[Len(n)] = "v"
     \/ n[Len(n) - 2] = "m" /\ n[Len(n) - 1] = "p" /\ n[Len(n)] = "3"

(* the name without its last four characters *)
WithoutFinalExtension(n) == SubSeq(n, 1, Len(n) - 4)

AudioNames == {n \in entries : EndsInWavOrMp3(n)}

(* where the result of the file being processed goes *)
CurrentResultPath == ResultFilePath(args_o, audio_file)

(* the output directory the user asked for *)
EffectiveOutputDir == IF args_o = <<>> THEN <<"i">> ELSE args_o

RunEnded == pc \in {"done", "failed"}

(* where the result saved last in this run went *)
LastResultPath == ResultFilePath(args_o, writes[Len(writes)])

----------------------------------------------------------------------------
(* C1: the result files saved in one run for distinct audio entries have
   distinct paths, so no result is overwritten by the result of another
   entry in the same run. *)
C1_NoCollision ==
  \A i, j \in 1..Len(writes) :
    i # j => ResultFilePath(args_o, writes[i]) # ResultFilePath(args_o, writes[j])

(* C2, as stated: every run that has ended has issued exactly one request
   for each of the N audio entries and none for another entry. *)
C2_ExactlyN ==
  RunEnded =>
    /\ Len(requests) = Cardinality(AudioNames)
    /\ Range(requests) = AudioNames

(* C2, amended: no entry is requested twice, only audio entries are
   requested, and a run that ends without an error has requested every one
   of the N audio entries (so exactly N requests). *)
C2_Requests ==
  /\ NoDuplicates(requests)
  /\ Range(requests) \subseteq AudioNames
  /\ pc = "done" =>
       /\ Range(requests) = AudioNames
       /\ Len(requests) = Cardinality(AudioNames)

C2_Witness ==
  /\ pc = "done"
  /\ Len(requests) = 1
  /\ Cardinality(entries) = 2
  /\ \E n \in entries : ~EndsInWavOrMp3(n)

(* C3: after a run without any error every audio entry has its result file,
   and that file parses to the JSON value the server returned for that same
   entry. *)
C3_EachOwnResult ==
  pc = "done" =>
    \A n \in AudioNames :
      /\ ResultFilePath(args_o, n) \in DOMAIN files
      /\ ValidJson(files[ResultFilePath(args_o, n)])
      /\ Loads(files[ResultFilePath(args_o, n)]) = Loads(env[n].text)

(* C4, as stated: the result file name of a selected entry is its name
   without the trailing .wav or .mp3, followed by .BirdNET.results.json. *)
C4_StripFinalExtension ==
  pc \in {"makedirs", "write"} =>
    Basename(CurrentResultPath) = WithoutFinalExtension(audio_file) \o ResultSuffix

(* C4, amended: that holds for every selected name with a character other
   than a dot before its final extension; a name made of dots only before
   the extension (.wav) keeps its whole name and gets .BirdNET.results.json
   appended. *)
C4_ResultName ==
  pc \in {"makedirs", "write"} =>
    /\ EndsInWavOrMp3(audio_file)
    /\ Basename(CurrentResultPath) =
         (IF \E k \in 1..(Len(audio_file) - 4) : audio_file[k] # "."
          THEN WithoutFinalExtension(audio_file)
          ELSE audio_file) \o ResultSuffix

C4_Witness ==
  /\ pc = "write"
  /\ audio_file = <<"a", ".", "b", ".", "m", "p", "3">>
  /\ Basename(CurrentResultPath) = <<"a", ".", "b">> \o ResultSuffix

(* C5: an error on one file ends the run in the failed state; from then on
   no request is issued and no result file is written, so the entries left
   in the listing get neither. *)
C5_AbortOnError ==
  /\ [](err # "none" =>
          /\ pc = "failed"
          /\ \A n \in todo : n \notin Range(requests) /\ n \notin Range(writes))
  /\ [][err # "none" =>
          /\ requests' = requests
          /\ writes' = writes
          /\ files' = files
          /\ visited' = visited
          /\ err' = err]_vars

C5_Witness ==
  /\ pc = "failed"
  /\ err = "ConnectionError"
  /\ Len(requests) = 1
  /\ \E n \in todo : EndsInWavOrMp3(n) /\ n \notin Range(requests)

(* C6, as stated: after the second run the result files and their contents
   are what they were after the first run. *)
C6_Idempotent == (second /\ RunEnded) => files = snapshot

(* C6, amended: that holds when the second run takes up the audio entries
   in the order the first run took them up. *)
C6_IdempotentSameOrder ==
  (second /\ RunEnded /\ visited = order1) => files = snapshot

C6_Witness ==
  /\ second
  /\ pc = "done"
  /\ visited = order1
  /\ Len(writes) = 2
  /\ files = snapshot

(* C7: a result file is only ever written inside the effective output
   directory (--o when it is not empty, the input directory otherwise), and
   that directory exists when the write starts. *)
C7_OutputDir ==
  /\ pc = "write" =>
       /\ Dirname(CurrentResultPath) = DirOf(EffectiveOutputDir)
       /\ Dirname(CurrentResultPath) \in dirs
  /\ \A p \in DOMAIN files : Dirname(p) = DirOf(EffectiveOutputDir)

C7_Witness ==
  /\ pc = "loop"
  /\ args_o = <<"o">>
  /\ Len(writes) = 1
  /\ Dirname(LastResultPath) = <<"o">>
  /\ LastResultPath \in DOMAIN files
  /\ files[LastResultPath] # "P0"

(* C8, as stated: the step at which processing of a file fails leaves every
   result file as it was. *)
C8_FailureChangesNothing ==
  [][(err = "none" /\ err' # "none") => files' = files]_vars

(* C8, amended: a failure before the result is being written (audio file
   unreadable, network failure, body that is no JSON, output directory not
   creatable, result file not openable) leaves every result file as it was;
   a failure while the result is being written leaves every result file but
   the one being written as it was. *)
C8_FailureFrame ==
  [][(err = "none" /\ err' # "none") =>
       IF err' = "OSError: write result"
       THEN /\ DOMAIN files' = DOMAIN files \cup {CurrentResultPath}
            /\ \A p \in DOMAIN files : p # CurrentResultPath => files'[p] = files[p]
       ELSE files' = files]_vars

C8_Witness ==
  /\ err = "JSONDecodeError"
  /\ Len(writes) = 1
  /\ ResultFilePath(args_o, writes[1]) # CurrentResultPath
  /\ files[ResultFilePath(args_o, writes[1])] \in {"P1", "P2"}
  /\ CurrentResultPath \in DOMAIN files
  /\ files[CurrentResultPath] = "P0"

(* C9: files are processed one at a time in listing order: at most one audio
   file is open and at most one request is outstanding, the audio file is
   closed before the result is saved, and a request is only issued when the
   results of all earlier requests have been saved. *)
C9_Sequential ==
  /\ Cardinality(handles) <= 1
  /\ Cardinality(inflight) <= 1
  /\ pc \in {"makedirs", "write", "loop", "done", "failed", "listdir"} => handles = {}
  /\ pc # "wait" => inflight = {}
  /\ Len(requests) <= Len(writes) + 1
  /\ Len(writes) <= Len(requests)
  /\ \A i \in 1..Len(writes) : writes[i] = requests[i]
  /\ \A i \in 1..Len(requests) : requests[i] = visited[i]
  /\ inflight # {} => Len(writes) = Len(requests) - 1

C9_Witness ==
  /\ pc = "wait"
  /\ Len(writes) = 1
  /\ inflight = {audio_file}
  /\ handles = {AudioFilePath(audio_file)}

(* C10: the status code plays no part: whatever the status, a response whose
   body is JSON is decoded and saved like a success, and the only response
   that ends the run is one whose body is no JSON. *)
C10_StatusIgnored ==
  /\ pc \in {"makedirs", "write"} =>
       /\ ValidJson(response.text)
       /\ data = Loads(response.text)
  /\ err = "JSONDecodeError" => ~ValidJson(response.text)
  /\ (response # NoResponse /\ ValidJson(response.text) /\ pc \in {"loop", "done"}) =>
       /\ writes # <<>>
       /\ LastResultPath \in DOMAIN files
       /\ files[LastResultPath] = Dump(Loads(response.text))
  /\ (response # NoResponse /\ ValidJson(response.text) /\ pc = "failed") =>
       err \in {"OSError: makedirs", "OSError: open result", "OSError: write result"}

C10_Witness ==
  /\ pc = "loop"
  /\ response.status = 500
  /\ Len(writes) = 1
  /\ LastResultPath \in DOMAIN files
  /\ files[LastResultPath] = Dump(Loads(response.text))

====
